---- MODULE Spec2Model ----
(***************************************************************************)
(* A model of two pieces of jina:                                          *)
(*   - the client request generators of jina/clients/python/request.py     *)
(*     (_build_doc, _generate, index, train, search, evaluate), and        *)
(*   - the CompoundExecutor of jina/executors/compound.py (route table,    *)
(*     add_route, save and reload, flags).                                 *)
(* The two pieces share no state; each has its own specifications: Spec    *)
(* for the request generators, RouterSpec and PersistSpec for the          *)
(* CompoundExecutor.                                                       *)
(***************************************************************************)
EXTENDS Integers, Sequences, FiniteSets, TLC

(***************************************************************************)
(* Bounds of the model.                                                    *)
(***************************************************************************)
\* longest item stream handed to a generator
MaxLen == 2
\* largest batch_size
MaxBatch == 2
\* longest component list of a CompoundExecutor
MaxComps == 2
\* most add_route calls a caller makes
MaxAddRoute == 1
\* most add_route calls a caller makes on an executor that is saved and loaded
MaxPersistAddRoute == 2

VARIABLES
    \* ---- request generators (request.py) ----
    entry,            \* which generator function the caller called
    data,             \* the item stream (argument `data`)
    batch_size,       \* argument `batch_size`
    override_doc_id,  \* argument `override_doc_id`
    requested,        \* argument `data_type` as the caller gave it
    top_k,            \* kwargs['top_k'] of the call
    queryset,         \* kwargs['queryset']; search() may rebind or extend it
    data_type,        \* the local `data_type` of _generate (the tracked type)
    pos,              \* number of items batch_iterator has taken from data
    nbatch,           \* number of batches batch_iterator has handed out
    pc,               \* where the generator is suspended ("start", "yielded",
                      \* "flushed"), or "done", or the exception that ended it
    out,              \* the Requests yielded so far, in order
    calls,            \* the _build_doc calls made so far, in order
    \* ---- CompoundExecutor (compound.py) ----
    components,       \* self._components: None, or the list of components
    attrs,            \* the functions set on the executor with setattr
    routes,           \* self._routes: None, or the stored routes
    is_updated,       \* self._is_updated
    resolve_all,      \* self.resolve_all
    saved,            \* what save() has left of this executor
    rlast,            \* the last call made on the executor and how it ended
    built,            \* how the last assignment of `components` ended
    transient,        \* some add_route without is_stored has succeeded since
                      \* the functions of the executor were last rebuilt
    nadd,             \* number of add_route calls the caller has made
    comp_is_trained,  \* c.is_trained of every executor that may be a component
    comp_is_updated   \* c.is_updated of every executor that may be a component

reqvars == <<entry, data, batch_size, override_doc_id, requested, top_k,
             queryset, data_type, pos, nbatch, pc, out, calls>>

rvars == <<components, attrs, routes, is_updated, resolve_all, saved, rlast,
           built, transient, nadd>>

cvars == <<comp_is_trained, comp_is_updated>>

vars == <<reqvars, rvars, cvars>>

(***************************************************************************)
(* Values.                                                                 *)
(***************************************************************************)
AUTO == "AUTO"
DOCUMENT == "DOCUMENT"
CONTENT == "CONTENT"
DataInputType == {AUTO, DOCUMENT, CONTENT}

\* What one datum is to Document(...):
\*   "doc"    it is already an instance of Document,
\*   "struct" it is structured data Document(data) accepts,
\*   "raw"    Document(data) raises BadDocType for it.
Kinds == {"doc", "struct", "raw"}
\* The halves of a 2-tuple item.
PairKinds == {"struct", "raw"}

\* An item of the stream: a single datum, or a 2-tuple (input, groundtruth).
Single(k) == [pair |-> FALSE, a |-> k, b |-> k]
Pair(k1, k2) == [pair |-> TRUE, a |-> k1, b |-> k2]
Items == {Single(k) : k \in Kinds} \cup {Pair(k1, k2) : k1 \in PairKinds, k2 \in PairKinds}

SeqsUpTo(S, n) == UNION {[1..m -> S] : m \in 0..n}

Entries == {"index", "train", "search", "evaluate"}

\* kwargs['top_k']: the key is absent, or None, or a number.
NoTopK == [kind |-> "absent", val |-> 0]
NoneTopK == [kind |-> "None", val |-> 0]
IntTopK(k) == [kind |-> "int", val |-> k]
TopKs == {NoTopK, NoneTopK, IntTopK(0), IntTopK(5)}

\* A query directive.  Q1 stands for one the caller supplies.
Q1 == [name |-> "caller", top_k |-> 0, priority |-> 0]

\* kwargs['queryset']: the key is absent, or its value is None, or a single
\* directive (not a Sequence), or a list of directives.
NoQuerySet == [kind |-> "absent", items |-> <<>>]
NoneQuerySet == [kind |-> "None", items |-> <<>>]
SingleQuerySet(q) == [kind |-> "single", items |-> <<q>>]
ListQuerySet(s) == [kind |-> "list", items |-> s]
QuerySets ==
    {NoQuerySet, NoneQuerySet, SingleQuerySet(Q1), ListQuerySet(<<>>), ListQuerySet(<<Q1>>)}

Min(a, b) == IF a < b THEN a ELSE b

(***************************************************************************)
(* _build_doc                                                              *)
(***************************************************************************)
\* The Document and the resolved type _build_doc returns, or the error it
\* raises.  A Document is recorded by the datum it was made from, the way it
\* was made and whether update_id() was called on it.
BuiltDoc(d, how, upd) == [data |-> d, how |-> how, id_updated |-> upd]

\* What a call of _build_doc gives: whether it returned (ok) or raised
\* BadDocType, the Document, the resolved type, and the number of times it
\* evaluated `Document(data, **kwargs)` (parses).
Built(ok, doc, type, parses) ==
    [ok |-> ok, doc |-> doc, type |-> type, parses |-> parses]

_build_doc_from_content(d) ==
    Built(TRUE, BuiltDoc(d, "content", FALSE), CONTENT, 0)

\* (a variant that tries to parse the datum whatever the data_type is)
_build_doc_always_parses(d, dt, ovr) ==
    IF d = "doc"
    THEN Built(TRUE, BuiltDoc(d, "instance", FALSE), DOCUMENT, 0)
    ELSE IF d = "struct"
    THEN Built(TRUE, BuiltDoc(d, "parsed", ovr), DOCUMENT, 1)
    ELSE IF dt = DOCUMENT
    THEN Built(FALSE, BuiltDoc(d, "none", FALSE), dt, 1)
    ELSE [_build_doc_from_content(d) EXCEPT !.parses = 1]

_build_doc(d, dt, ovr) ==
    IF dt = AUTO \/ dt = DOCUMENT
    THEN IF d = "doc"
         THEN Built(TRUE, BuiltDoc(d, "instance", FALSE), DOCUMENT, 0)
         ELSE IF d = "struct"
         THEN Built(TRUE, BuiltDoc(d, "parsed", ovr), DOCUMENT, 1)
         ELSE IF dt = AUTO
         THEN [_build_doc_from_content(d) EXCEPT !.parses = 1]
         ELSE Built(FALSE, BuiltDoc(d, "none", FALSE), dt, 1)
    ELSE _build_doc_from_content(d)

(***************************************************************************)
(* batch_iterator (jina/helper.py, not among the source files): modelled   *)
(* from the specification.  A batch_size of 0 hands out the whole stream   *)
(* as one batch; otherwise the stream is cut, in order, into chunks of     *)
(* batch_size items, the last one possibly shorter, and an empty stream    *)
(* gives no chunk.                                                         *)
(***************************************************************************)
HasBatch(s, items, bs) ==
    IF bs = 0 THEN s.nbatch = 0 ELSE s.pos < Len(items)

NextBatch(s, items, bs) ==
    IF bs = 0 THEN items
    ELSE SubSeq(items, s.pos + 1, Min(s.pos + bs, Len(items)))

(***************************************************************************)
(* _generate                                                               *)
(***************************************************************************)
\* One entry of the log of _build_doc calls: the item part it was called for,
\* the datum and the data_type it was given, and what it gave.
Call(role, given, r) ==
    [role |-> role, given |-> given, ok |-> r.ok, type |-> r.type,
     data |-> r.doc.data, how |-> r.doc.how, id_updated |-> r.doc.id_updated,
     parses |-> r.parses]

\* (a variant that keeps the type the caller gave)
TrackedTypeKept(before, resolved) == before

\* `d, data_type = _build_doc(...)`: the value the local data_type takes.
TrackedType(before, resolved) == resolved

\* (a variant that hands over the type the input of the pair was built with)
GroundtruthTypeStale(before, resolved) == before

\* The data_type handed to the build of the groundtruth of a pair.
GroundtruthType(before, resolved) == resolved

\* The body of `for content in batch`, from item i on.  w holds the local
\* data_type (dt), req.docs, req.groundtruths, the call log and whether no
\* call has raised; a raise leaves the rest of the batch untouched.
RECURSIVE ForContent(_, _, _, _)
ForContent(batch, i, w, ovr) ==
    IF i > Len(batch) \/ ~w.ok THEN w
    ELSE LET content == batch[i]
             r1 == _build_doc(content.a, w.dt, ovr)
             dt1 == IF r1.ok THEN TrackedType(w.dt, r1.type) ELSE w.dt
             gtype == GroundtruthType(w.dt, dt1)
             r2 == _build_doc(content.b, gtype, ovr)
         IN  IF content.pair
             THEN IF ~r1.ok
                  THEN [w EXCEPT !.ok = FALSE,
                                 !.calls = Append(@, Call("primary", w.dt, r1))]
                  ELSE IF ~r2.ok
                  THEN [w EXCEPT !.ok = FALSE, !.dt = dt1,
                                 !.calls = @ \o <<Call("primary", w.dt, r1),
                                                  Call("groundtruth", gtype, r2)>>]
                  ELSE ForContent(batch, i + 1,
                           [w EXCEPT !.dt = dt1,
                                     !.docs = Append(@, r1.doc),
                                     !.gts = Append(@, r2.doc),
                                     !.calls = @ \o <<Call("primary", w.dt, r1),
                                                      Call("groundtruth", gtype, r2)>>],
                           ovr)
             ELSE IF ~r1.ok
                  THEN [w EXCEPT !.ok = FALSE,
                                 !.calls = Append(@, Call("single", w.dt, r1))]
                  ELSE ForContent(batch, i + 1,
                           [w EXCEPT !.dt = dt1,
                                     !.docs = Append(@, r1.doc),
                                     !.calls = Append(@, Call("single", w.dt, r1))],
                           ovr)

\* req.queryset after `if isinstance(queryset, Sequence): ... elif queryset
\* is not None: ...`.
ReqQuerySet(qs) ==
    IF qs.kind = "list" THEN qs.items
    ELSE IF qs.kind = "single" THEN qs.items
    ELSE <<>>

Request(docs, gts, qs, flush) ==
    [docs |-> docs, groundtruths |-> gts, queryset |-> qs, flush |-> flush]

\* The state of one running _generate: its local data_type, the place of
\* batch_iterator in the stream, the Requests yielded, the _build_doc calls
\* made, and whether it is still alive (no BadDocType has left it).
GenState(dt, p, nb, o, c, ok) ==
    [data_type |-> dt, pos |-> p, nbatch |-> nb, out |-> o, calls |-> c, ok |-> ok]

\* (a variant that creates the Request once, before the loop over the batches)
GenStepOneRequest(s, items, bs, ovr, qs) ==
    LET batch == NextBatch(s, items, bs)
        w == ForContent(batch, 1,
                 [dt |-> s.data_type,
                  docs |-> IF s.out = <<>> THEN <<>> ELSE s.out[Len(s.out)].docs,
                  gts |-> IF s.out = <<>> THEN <<>> ELSE s.out[Len(s.out)].groundtruths,
                  calls |-> s.calls, ok |-> TRUE], ovr)
    IN  GenState(w.dt, s.pos + Len(batch), s.nbatch + 1,
                 IF w.ok
                 THEN Append(s.out, Request(w.docs, w.gts, ReqQuerySet(qs), FALSE))
                 ELSE s.out,
                 w.calls, w.ok)

\* (a variant that catches BadDocType and yields the Request as it stands)
GenStepYieldsAnyway(s, items, bs, ovr, qs) ==
    LET batch == NextBatch(s, items, bs)
        w == ForContent(batch, 1,
                 [dt |-> s.data_type, docs |-> <<>>, gts |-> <<>>,
                  calls |-> s.calls, ok |-> TRUE], ovr)
    IN  GenState(w.dt, s.pos + Len(batch), s.nbatch + 1,
                 Append(s.out, Request(w.docs, w.gts, ReqQuerySet(qs), FALSE)),
                 w.calls, TRUE)

\* _generate from one resumption to its next yield (or to the raise), when
\* batch_iterator has a batch left.
GenStep(s, items, bs, ovr, qs) ==
    LET batch == NextBatch(s, items, bs)
        w == ForContent(batch, 1,
                 [dt |-> s.data_type, docs |-> <<>>, gts |-> <<>>,
                  calls |-> s.calls, ok |-> TRUE], ovr)
    IN  GenState(w.dt, s.pos + Len(batch), s.nbatch + 1,
                 IF w.ok
                 THEN Append(s.out, Request(w.docs, w.gts, ReqQuerySet(qs), FALSE))
                 ELSE s.out,
                 w.calls, w.ok)

\* _generate run to its end: every Request it yields for an input.
RECURSIVE GenAll(_, _, _, _, _)
GenAll(s, items, bs, ovr, qs) ==
    IF ~s.ok \/ ~HasBatch(s, items, bs) THEN s
    ELSE GenAll(GenStep(s, items, bs, ovr, qs), items, bs, ovr, qs)

(***************************************************************************)
(* index, train, search, evaluate                                          *)
(***************************************************************************)
\* `req = Request(); req.train.flush = True`
FlushRequest == Request(<<>>, <<>>, <<>>, TRUE)

\* QueryLang(VectorSearchDriver(top_k=k, priority=1))
TopKQL(k) == [name |-> "VectorSearchDriver", top_k |-> k, priority |-> 1]

\* `('top_k' in kwargs) and (kwargs['top_k'] is not None)`
HasTopK(tk) == tk.kind = "int"

\* kwargs['queryset'] after the first lines of search(), or the
\* AttributeError of `.append` on a value that has none.
SearchQuerySet(tk, qs) ==
    IF HasTopK(tk)
    THEN IF qs.kind = "absent"
         THEN [ok |-> TRUE, qs |-> ListQuerySet(<<TopKQL(tk.val)>>)]
         ELSE IF qs.kind = "list"
         THEN [ok |-> TRUE, qs |-> ListQuerySet(Append(qs.items, TopKQL(tk.val)))]
         ELSE [ok |-> FALSE, qs |-> qs]
    ELSE [ok |-> TRUE, qs |-> qs]

Cur == GenState(data_type, pos, nbatch, out, calls, TRUE)

\* The generator takes the state s and suspends (or dies) at p.
Become(s, p) ==
    /\ data_type' = s.data_type
    /\ pos' = s.pos
    /\ nbatch' = s.nbatch
    /\ out' = s.out
    /\ calls' = s.calls
    /\ pc' = p

\* `yield from _generate(...)` resumed once: the next Request, the
\* BadDocType, or the end of _generate (then the generator is at `after`).
YieldFrom(qs, after) ==
    IF HasBatch(Cur, data, batch_size)
    THEN LET s == GenStep(Cur, data, batch_size, override_doc_id, qs)
         IN  Become(s, IF s.ok THEN "yielded" ELSE "BadDocType")
    ELSE after

ReqInit ==
    /\ entry \in Entries
    /\ data \in SeqsUpTo(Items, MaxLen)
    /\ batch_size \in 0..MaxBatch
    /\ override_doc_id \in BOOLEAN
    /\ requested \in DataInputType
    /\ top_k \in (IF entry = "search" THEN TopKs ELSE {NoTopK})
    /\ queryset \in QuerySets
    /\ data_type = requested
    /\ pos = 0
    /\ nbatch = 0
    /\ pc = "start"
    /\ out = <<>>
    /\ calls = <<>>

Params == <<entry, data, batch_size, override_doc_id, requested, top_k>>

\* next() on the generator index(...) returned
IndexNext ==
    /\ entry = "index"
    /\ pc \in {"start", "yielded"}
    /\ YieldFrom(queryset, Become(Cur, "done"))
    /\ UNCHANGED <<Params, queryset>>

\* next() on the generator evaluate(...) returned
EvaluateNext ==
    /\ entry = "evaluate"
    /\ pc \in {"start", "yielded"}
    /\ YieldFrom(queryset, Become(Cur, "done"))
    /\ UNCHANGED <<Params, queryset>>

\* (a variant that yields the flush Request before the others)
TrainFlushFirst(o) == <<FlushRequest>> \o o

\* The Requests train() yields once _generate has ended.
TrainFlush(o) == Append(o, FlushRequest)

\* next() on the generator train(...) returned
TrainNext ==
    /\ entry = "train"
    /\ \/ /\ pc \in {"start", "yielded"}
          /\ YieldFrom(queryset,
                 Become([Cur EXCEPT !.out = TrainFlush(out)], "flushed"))
       \/ /\ pc = "flushed"
          /\ Become(Cur, "done")
    /\ UNCHANGED <<Params, queryset>>

\* next() on the generator search(...) returned
SearchNext ==
    /\ entry = "search"
    /\ \/ /\ pc = "start"
          /\ LET q == SearchQuerySet(top_k, queryset)
             IN  /\ queryset' = q.qs
                 /\ IF q.ok
                    THEN YieldFrom(q.qs, Become(Cur, "done"))
                    ELSE Become(Cur, "AttributeError")
       \/ /\ pc = "yielded"
          /\ YieldFrom(queryset, Become(Cur, "done"))
          /\ UNCHANGED queryset
    /\ UNCHANGED Params

(***************************************************************************)
(* CompoundExecutor: components                                            *)
(***************************************************************************)
\* The executors that may be components.  A and C have the same metas.name.
Comps == {"A", "B", "C"}

Name(c) == IF c = "B" THEN "b" ELSE "a"

\* BaseExecutor.exec_methods (jina/executors/__init__.py), three of them.
ExecMethods == {"encode", "add", "query"}

\* The exec methods a component defines.
Methods(c) ==
    IF c = "A" THEN {"encode", "add"}
    ELSE IF c = "B" THEN {"add", "query"}
    ELSE {"query"}

\* hasattr(c, f): its methods, and its attribute `name`, which is no function.
HasAttr(c, f) == f \in Methods(c) \/ f = "name"

\* callable(getattr(c, f))
IsCallable(c, f) == f \in Methods(c)

\* The result of calling c.f()
Ret(c, f) == [by |-> c, of |-> f]

InjSeqs(S, n) ==
    {q \in SeqsUpTo(S, n) : \A i, j \in DOMAIN q : i # j => q[i] # q[j]}

\* The lists a caller may assign to `components`.
CompLists == InjSeqs(Comps, MaxComps)

NoComponents == [none |-> TRUE, list |-> <<>>]
ComponentList(l) == [none |-> FALSE, list |-> l]

(***************************************************************************)
(* CompoundExecutor: the functions set on the executor                     *)
(***************************************************************************)
AllName(m) == m \o "_all"

\* The names add_route is called with for the new function.
RouteNames == {"add", "say"}

AttrNames == ExecMethods \cup {AllName(m) : m \in ExecMethods} \cup RouteNames

\* The executor has no such function.
NoFn == [kind |-> "none", fns |-> <<>>]
\* getattr(c, f), a bound method of a component
Direct(c, f) == [kind |-> "direct", fns |-> <<[comp |-> c, op |-> f]>>]
\* _FnWrapper(fns)
FnWrapper(fns) == [kind |-> "all", fns |-> fns]

NoAttrs == [n \in AttrNames |-> NoFn]

\* self._routes: None, or a dict fn_name -> {comp_name: comp_fn_name}, kept
\* as the list of its items in the dict's order.
NoRoutes == [none |-> TRUE, items |-> <<>>]
Routes(items) == [none |-> FALSE, items |-> items]
RouteItem(fn, to) == [fn |-> fn, to |-> to]
Target(cn, cfn) == [comp |-> cn, op |-> cfn]

\* The `routes` a CompoundExecutor is constructed with.
InitRoutes ==
    { NoRoutes,
      Routes(<<RouteItem("say", <<Target("b", "add")>>)>>),
      Routes(<<RouteItem("add", <<Target("a", "add"), Target("b", "add")>>)>>) }

(***************************************************************************)
(* _set_routes                                                             *)
(***************************************************************************)
\* r[method]: the components that have the method, in the order of the list.
Providers(list, m) == SelectSeq(list, LAMBDA c : HasAttr(c, m))

\* (a variant that takes the first of several providers for the plain name)
_set_routes_first(at, list, ra) ==
    [n \in AttrNames |->
        IF n \in ExecMethods /\ Len(Providers(list, n)) >= 1
        THEN Direct(Providers(list, n)[1], n)
        ELSE at[n]]

\* The functions of the executor after _set_routes, given those before.
_set_routes(at, list, ra) ==
    [n \in AttrNames |->
        IF n \in ExecMethods /\ Len(Providers(list, n)) = 1
        THEN Direct(Providers(list, n)[1], n)
        ELSE IF \E m \in ExecMethods :
                   n = AllName(m) /\ Len(Providers(list, m)) > 1 /\ ra
        THEN LET m == CHOOSE m \in ExecMethods : n = AllName(m)
             IN  FnWrapper([i \in 1..Len(Providers(list, m)) |->
                               [comp |-> Providers(list, m)[i], op |-> m]])
        ELSE at[n]]

(***************************************************************************)
(* add_route                                                               *)
(***************************************************************************)
\* The executor as add_route reads and writes it.
Exec(at, rt, upd, err) == [attrs |-> at, routes |-> rt, is_updated |-> upd, err |-> err]

\* The place in the list of the first component add_route accepts, or 0.
FirstMatch(list, cn, cfn) ==
    LET I == {i \in DOMAIN list :
                 Name(list[i]) = cn /\ HasAttr(list[i], cfn) /\ IsCallable(list[i], cfn)}
    IN  IF I = {} THEN 0 ELSE CHOOSE i \in I : \A j \in I : i <= j

\* `self._routes[fn_name] = {comp_name: comp_fn_name}`, after
\* `if not self._routes: self._routes = {}`.
PutRoute(rt, fn, cn, cfn) ==
    LET item == RouteItem(fn, <<Target(cn, cfn)>>)
    IN  IF \E i \in DOMAIN rt.items : rt.items[i].fn = fn
        THEN Routes([i \in DOMAIN rt.items |->
                        IF rt.items[i].fn = fn THEN item ELSE rt.items[i]])
        ELSE Routes(Append(rt.items, item))

\* (a variant that stores the route before it looks for the component)
add_route_store_first(x, list, fn, cn, cfn, is_stored) ==
    LET i == FirstMatch(list, cn, cfn)
        rt == IF is_stored THEN PutRoute(x.routes, fn, cn, cfn) ELSE x.routes
    IN  IF i = 0
        THEN Exec(x.attrs, rt, x.is_updated, "AttributeError")
        ELSE Exec([x.attrs EXCEPT ![fn] = Direct(list[i], cfn)], rt,
                  IF is_stored THEN TRUE ELSE x.is_updated, "")

\* (a variant that does not mark the executor as updated)
add_route_not_updated(x, list, fn, cn, cfn, is_stored) ==
    LET i == FirstMatch(list, cn, cfn)
    IN  IF i = 0
        THEN Exec(x.attrs, x.routes, x.is_updated, "AttributeError")
        ELSE Exec([x.attrs EXCEPT ![fn] = Direct(list[i], cfn)],
                  IF is_stored THEN PutRoute(x.routes, fn, cn, cfn) ELSE x.routes,
                  x.is_updated, "")

\* add_route on a list of components: the executor afterwards, with the
\* error raised ("" for none).
add_route(x, list, fn, cn, cfn, is_stored) ==
    LET i == FirstMatch(list, cn, cfn)
    IN  IF i = 0
        THEN Exec(x.attrs, x.routes, x.is_updated, "AttributeError")
        ELSE Exec([x.attrs EXCEPT ![fn] = Direct(list[i], cfn)],
                  IF is_stored THEN PutRoute(x.routes, fn, cn, cfn) ELSE x.routes,
                  IF is_stored THEN TRUE ELSE x.is_updated, "")

(***************************************************************************)
(* _resolve_routes and the setter of `components`                          *)
(***************************************************************************)
\* The calls `self.add_route(f, kk, vv)` of _resolve_routes, in order.
RECURSIVE RouteCalls(_)
RouteCalls(items) ==
    IF items = <<>> THEN <<>>
    ELSE [i \in DOMAIN Head(items).to |->
             [fn |-> Head(items).fn, comp |-> Head(items).to[i].comp,
              op |-> Head(items).to[i].op]]
         \o RouteCalls(Tail(items))

\* The calls cs[i..], stopping at the first that raises.
RECURSIVE ApplyRoutes(_, _, _, _)
ApplyRoutes(x, list, cs, i) ==
    IF i > Len(cs) \/ x.err # "" THEN x
    ELSE ApplyRoutes(add_route(x, list, cs[i].fn, cs[i].comp, cs[i].op, FALSE),
                     list, cs, i + 1)

_resolve_routes(x, list) ==
    IF x.routes.none \/ x.routes.items = <<>> THEN x
    ELSE ApplyRoutes(x, list, RouteCalls(x.routes.items), 1)

\* (a variant that applies the stored routes before the automatic ones)
SetComponentsRoutesFirst(x, list, ra) ==
    LET y == _resolve_routes(x, list)
    IN  IF y.err # "" THEN y
        ELSE [y EXCEPT !.attrs = _set_routes(y.attrs, list, ra)]

\* The setter of `components`, after `self._components = comps()`:
\* _set_routes(), then _resolve_routes().
SetComponents(x, list, ra) ==
    _resolve_routes([x EXCEPT !.attrs = _set_routes(x.attrs, list, ra)], list)

(***************************************************************************)
(* _FnWrapper.__call__ and calls of the executor's functions               *)
(***************************************************************************)
\* (a variant that calls the functions last to first)
FnWrapperCallReversed(fns, k) ==
    LET n == IF k = 0 THEN Len(fns) ELSE k
        g == [i \in 1..Len(fns) |-> fns[Len(fns) + 1 - i]]
    IN  [called |-> SubSeq(g, 1, n),
         result |-> IF k = 0 THEN [i \in 1..Len(g) |-> Ret(g[i].comp, g[i].op)]
                    ELSE <<>>,
         err |-> IF k = 0 THEN "" ELSE "Exception"]

\* `for f in self.fns: r.append(f())`: the functions called and the list
\* returned, when the k-th function raises (k = 0: none does).
FnWrapperCall(fns, k) ==
    LET n == IF k = 0 THEN Len(fns) ELSE k
    IN  [called |-> SubSeq(fns, 1, n),
         result |-> IF k = 0 THEN [i \in 1..Len(fns) |-> Ret(fns[i].comp, fns[i].op)]
                    ELSE <<>>,
         err |-> IF k = 0 THEN "" ELSE "Exception"]

(***************************************************************************)
(* The executor as a state machine                                         *)
(***************************************************************************)
\* The last call: what was called, the error it raised ("" for none), the
\* functions of components it called and what it returned.
LastCall(op, err, called, result) ==
    [op |-> op, err |-> err, called |-> called, result |-> result]

\* Nothing has been saved.
NotSaved ==
    [exists |-> FALSE, components |-> <<>>, routes |-> NoRoutes, attrs |-> NoAttrs,
     is_updated |-> FALSE, built |-> "no", transient |-> FALSE]

\* CompoundExecutor.__init__(routes, resolve_all)
RouterInit ==
    /\ components = NoComponents
    /\ attrs = NoAttrs
    /\ routes \in InitRoutes
    /\ is_updated = FALSE
    /\ resolve_all \in BOOLEAN
    /\ saved = NotSaved
    /\ rlast = LastCall("__init__", "", <<>>, <<>>)
    /\ built = "no"
    /\ transient = FALSE
    /\ nadd = 0

X == Exec(attrs, routes, is_updated, "")

\* `ce.components = lambda: list`
AssignComponents(list) ==
    /\ LET y == SetComponents(X, list, resolve_all)
       IN  /\ components' = ComponentList(list)
           /\ attrs' = y.attrs
           /\ routes' = y.routes
           /\ is_updated' = y.is_updated
           /\ built' = IF y.err = "" THEN "ok" ELSE "failed"
           /\ rlast' = LastCall("components", y.err, <<>>, <<>>)
    /\ transient' = FALSE
    /\ UNCHANGED <<resolve_all, saved, nadd>>

\* `ce.add_route(fn, cn, cfn, is_stored)`; iterating None raises TypeError.
AddRoute(fn, cn, cfn, is_stored) ==
    /\ nadd' = nadd + 1
    /\ IF components.none
       THEN /\ rlast' = LastCall("add_route", "TypeError", <<>>, <<>>)
            /\ UNCHANGED <<attrs, routes, is_updated, transient>>
       ELSE LET y == add_route(X, components.list, fn, cn, cfn, is_stored)
            IN  /\ attrs' = y.attrs
                /\ routes' = y.routes
                /\ is_updated' = y.is_updated
                /\ transient' = (transient \/ (y.err = "" /\ ~is_stored))
                /\ rlast' = LastCall("add_route", y.err, <<>>, <<>>)
    /\ UNCHANGED <<components, resolve_all, saved, built>>

\* What the executor's own save (BaseExecutor.save, not among the source
\* files) leaves behind.  The dump is the executor as it is: its components,
\* its stored routes and the functions set on it.  The configuration
\* (to_yaml) has the component list, and the stored routes, which add_route
\* says are "stored in the config".
Descriptor ==
    [exists |-> TRUE, components |-> components.list, routes |-> routes,
     attrs |-> attrs, is_updated |-> is_updated, built |-> built,
     transient |-> transient]

\* `ce.save()`: every component's save(), then the executor's own.  The k-th
\* component's save raises, or returns False (k = 0: all return True).
Save(k, raises) ==
    /\ IF components.none
       THEN /\ k = 0 /\ ~raises
            /\ rlast' = LastCall("save", "TypeError", <<>>, <<>>)
            /\ UNCHANGED saved
       ELSE /\ k \in 0..Len(components.list)
            /\ raises => k > 0
            /\ IF raises
               THEN /\ rlast' = LastCall("save", "Exception",
                                     SubSeq(components.list, 1, k), <<>>)
                    /\ UNCHANGED saved
               ELSE /\ rlast' = LastCall("save", "",
                                     components.list, <<TRUE>>)
                    /\ saved' = Descriptor
    /\ UNCHANGED <<components, attrs, routes, is_updated, resolve_all,
                   built, transient, nadd>>

\* CompoundExecutor.from_yaml on what save() left.  _get_instance_from_yaml
\* (not among the source files) returns obj, data and from_dump.  With
\* from_dump, obj is the dumped executor and from_yaml returns it as it is.
\* Without, obj is a new executor with the stored routes of the
\* configuration, and `obj.components = lambda: data['components']` runs the
\* setter of `components`; the configuration to_yaml writes always has the
\* key 'components'.
from_yaml(dump, from_dump, ra) ==
    IF from_dump
    THEN Exec(dump.attrs, dump.routes, dump.is_updated, "")
    ELSE SetComponents(Exec(NoAttrs, dump.routes, FALSE, ""), dump.components, ra)

\* `CompoundExecutor.from_yaml(...)` after a save(), from the dump or from
\* the configuration, which the call is recorded with.  When the setter of
\* `components` raises, `return obj` is not reached: no executor is handed
\* out, and the executor the caller has is the one before the call.
Reload(from_dump) ==
    /\ saved.exists
    /\ LET y == from_yaml(saved, from_dump, resolve_all)
       IN  /\ rlast' = LastCall("reload", y.err, <<>>,
                                 <<IF from_dump THEN "dump" ELSE "config">>)
           /\ IF y.err # ""
              THEN UNCHANGED <<components, attrs, routes, is_updated, built,
                               transient>>
              ELSE /\ components' = ComponentList(saved.components)
                   /\ attrs' = y.attrs
                   /\ routes' = y.routes
                   /\ is_updated' = y.is_updated
                   /\ built' = IF from_dump THEN saved.built ELSE "ok"
                   /\ transient' = (from_dump /\ saved.transient)
    /\ UNCHANGED <<resolve_all, saved, nadd>>

\* `ce.<n>()` for a function n the executor has; the k-th of its functions
\* raises (k = 0: none does).
CallFn(n, k) ==
    /\ attrs[n].kind # "none"
    /\ k \in 0..Len(attrs[n].fns)
    /\ LET r == FnWrapperCall(attrs[n].fns, k)
       IN  rlast' = LastCall(n, r.err, r.called, r.result)
    /\ UNCHANGED <<components, attrs, routes, is_updated, resolve_all, saved,
                   built, transient, nadd>>

CompNames == {"a", "b", "zz"}
CompFnNames == {"add", "query", "name"}

(***************************************************************************)
(* is_trained and is_updated                                               *)
(***************************************************************************)
\* A Python value a property returns, with its truth value.
PyBool(b) == [py |-> IF b THEN "True" ELSE "False", truth |-> b]
PyNone == [py |-> "None", truth |-> FALSE]
PyEmptyList == [py |-> "[]", truth |-> FALSE]

Range(q) == {q[i] : i \in DOMAIN q}

\* `self.components and rest`: None and the empty list are returned as they
\* are.
ComponentsAnd(cs, rest) ==
    IF cs.none THEN PyNone
    ELSE IF cs.list = <<>> THEN PyEmptyList
    ELSE rest

\* (a variant that returns all(...) alone)
get_is_trained_all_only(cs, tr) == PyBool(\A c \in Range(cs.list) : tr[c])

\* The property is_trained.
get_is_trained(cs, tr) ==
    ComponentsAnd(cs, PyBool(\A c \in Range(cs.list) : tr[c]))

\* The property is_updated.
get_is_updated(cs, up, own) ==
    LET x == ComponentsAnd(cs, PyBool(\E c \in Range(cs.list) : up[c]))
    IN  IF x.truth THEN x ELSE PyBool(own)

\* The setter of is_trained: `for c in self.components: c.is_trained = val`.
set_is_trained(cs, tr, val) ==
    [c \in Comps |-> IF c \in Range(cs.list) THEN val ELSE tr[c]]

\* (a variant that writes the flag of every component too)
set_is_updated_fanout(cs, up, own, val) ==
    [own |-> val,
     comps |-> [c \in Comps |-> IF c \in Range(cs.list) THEN val ELSE up[c]]]

\* The setter of is_updated: `self._is_updated = val`.
set_is_updated(cs, up, own, val) == [own |-> val, comps |-> up]

\* `ce.is_trained = v`; iterating None raises TypeError.
SetTrained(v) ==
    /\ IF components.none
       THEN /\ rlast' = LastCall("is_trained.setter", "TypeError", <<>>, <<PyBool(v)>>)
            /\ UNCHANGED comp_is_trained
       ELSE /\ rlast' = LastCall("is_trained.setter", "", <<>>, <<PyBool(v)>>)
            /\ comp_is_trained' = set_is_trained(components, comp_is_trained, v)
    /\ UNCHANGED <<components, attrs, routes, is_updated, resolve_all, saved,
                   built, transient, nadd, comp_is_updated>>

\* `ce.is_trained`
GetTrained ==
    /\ rlast' = LastCall("is_trained", "", <<>>,
                         <<get_is_trained(components, comp_is_trained)>>)
    /\ UNCHANGED <<components, attrs, routes, is_updated, resolve_all, saved,
                   built, transient, nadd, cvars>>

\* `ce.is_updated = v`
SetUpdated(v) ==
    /\ LET y == set_is_updated(components, comp_is_updated, is_updated, v)
       IN  /\ is_updated' = y.own
           /\ comp_is_updated' = y.comps
    /\ rlast' = LastCall("is_updated.setter", "", <<>>, <<PyBool(v)>>)
    /\ UNCHANGED <<components, attrs, routes, resolve_all, saved,
                   built, transient, nadd, comp_is_trained>>

\* `ce.is_updated`
GetUpdated ==
    /\ rlast' = LastCall("is_updated", "", <<>>,
                         <<get_is_updated(components, comp_is_updated, is_updated)>>)
    /\ UNCHANGED <<components, attrs, routes, is_updated, resolve_all, saved,
                   built, transient, nadd, cvars>>

(***************************************************************************)
(* __getitem__, __contains__ and close                                     *)
(***************************************************************************)
\* The argument of `ce[item]` and of `item in ce`: a string, an index
\* (negative ones count from the end of the list; True and False are the
\* indexes 1 and 0), or a value of another type.
StrItem(n) == [kind |-> "str", s |-> n, n |-> 0]
IntItem(i) == [kind |-> "int", s |-> "", n |-> i]
OtherItem == [kind |-> "other", s |-> "", n |-> 0]

\* `self.components[n]`: the place in the list a Python index n stands for,
\* or 0 when the index is out of range (-len <= n < len is in range).
ListPlace(list, n) ==
    IF n >= 0 /\ n < Len(list) THEN n + 1
    ELSE IF n < 0 /\ 0 - n <= Len(list) THEN Len(list) + n + 1
    ELSE 0

\* The places in the list of the components named n.
Named(list, n) == {i \in DOMAIN list : Name(list[i]) = n}

\* __getitem__: the error raised ("" for none) and the value returned, a
\* component or None.
getitem(cs, it) ==
    IF it.kind = "int"
    THEN IF cs.none THEN [err |-> "TypeError", value |-> "None"]
         ELSE IF ListPlace(cs.list, it.n) # 0
         THEN [err |-> "", value |-> cs.list[ListPlace(cs.list, it.n)]]
         ELSE [err |-> "IndexError", value |-> "None"]
    ELSE IF it.kind = "str"
    THEN IF cs.none THEN [err |-> "TypeError", value |-> "None"]
         ELSE LET I == Named(cs.list, it.s)
              IN  IF I = {} THEN [err |-> "", value |-> "None"]
                  ELSE [err |-> "",
                        value |-> cs.list[CHOOSE i \in I : \A j \in I : i <= j]]
    ELSE [err |-> "TypeError", value |-> "None"]

\* __contains__: the error raised and the value returned.
contains(cs, it) ==
    IF it.kind = "str"
    THEN IF cs.none THEN [err |-> "TypeError", value |-> "None"]
         ELSE [err |-> "",
               value |-> IF Named(cs.list, it.s) # {} THEN "True" ELSE "False"]
    ELSE [err |-> "TypeError", value |-> "None"]

\* close() when the close() of the k-th component raises (k = 0: none
\* does): the components whose close() was called, whether the executor's
\* own close() was reached, and the error raised.
close(cs, k) ==
    IF cs.none \/ cs.list = <<>>
    THEN [closed |-> <<>>, own |-> TRUE, err |-> ""]
    ELSE IF k = 0
    THEN [closed |-> cs.list, own |-> TRUE, err |-> ""]
    ELSE [closed |-> SubSeq(cs.list, 1, k), own |-> FALSE, err |-> "Exception"]

\* `ce[item]`
GetItem(it) ==
    /\ LET r == getitem(components, it)
       IN  rlast' = LastCall("__getitem__", r.err, <<>>, <<r.value>>)
    /\ UNCHANGED <<components, attrs, routes, is_updated, resolve_all, saved,
                   built, transient, nadd, cvars>>

\* `item in ce`
Contains(it) ==
    /\ LET r == contains(components, it)
       IN  rlast' = LastCall("__contains__", r.err, <<>>, <<r.value>>)
    /\ UNCHANGED <<components, attrs, routes, is_updated, resolve_all, saved,
                   built, transient, nadd, cvars>>

\* `ce.close()`
Close(k) ==
    /\ k \in 0..Len(components.list)
    /\ LET r == close(components, k)
       IN  rlast' = LastCall("close", r.err,
                             [i \in DOMAIN r.closed |-> [comp |-> r.closed[i], op |-> "close"]],
                             IF r.own THEN <<"BaseExecutor.close">> ELSE <<>>)
    /\ UNCHANGED <<components, attrs, routes, is_updated, resolve_all, saved,
                   built, transient, nadd, cvars>>

LookupItems ==
    {StrItem(n) : n \in CompNames}
    \cup {IntItem(i) : i \in (0 - MaxComps - 1)..MaxComps}
    \cup {OtherItem}

(***************************************************************************)
(* The specifications                                                       *)
(***************************************************************************)
\* No generator is running.
ReqIdle ==
    /\ entry = "index"
    /\ data = <<>>
    /\ batch_size = 0
    /\ override_doc_id = TRUE
    /\ requested = AUTO
    /\ top_k = NoTopK
    /\ queryset = NoQuerySet
    /\ data_type = AUTO
    /\ pos = 0
    /\ nbatch = 0
    /\ pc = "done"
    /\ out = <<>>
    /\ calls = <<>>

\* No CompoundExecutor has been constructed.
RouterIdle ==
    /\ components = NoComponents
    /\ attrs = NoAttrs
    /\ routes = NoRoutes
    /\ is_updated = FALSE
    /\ resolve_all = TRUE
    /\ saved = NotSaved
    /\ rlast = LastCall("", "", <<>>, <<>>)
    /\ built = "no"
    /\ transient = FALSE
    /\ nadd = 0

\* The flags of the executors are left alone.
CompsIdle ==
    /\ comp_is_trained = [c \in Comps |-> FALSE]
    /\ comp_is_updated = [c \in Comps |-> FALSE]

Init == ReqInit /\ RouterIdle /\ CompsIdle

Next ==
    \/ IndexNext /\ UNCHANGED <<rvars, cvars>>
    \/ EvaluateNext /\ UNCHANGED <<rvars, cvars>>
    \/ TrainNext /\ UNCHANGED <<rvars, cvars>>
    \/ SearchNext /\ UNCHANGED <<rvars, cvars>>

\* The request generators.
Spec == Init /\ [][Next]_vars

RouterSpecInit == RouterInit /\ ReqIdle /\ CompsIdle

\* `components` is assigned once, by the construction of the executor.
Construct == \E list \in CompLists : components.none /\ AssignComponents(list)

SomeAddRoute ==
    /\ nadd < MaxAddRoute
    /\ \E fn \in RouteNames, cn \in CompNames, cfn \in CompFnNames, st \in BOOLEAN :
          AddRoute(fn, cn, cfn, st)

SomeCallFn == \E n \in AttrNames, k \in 0..MaxComps : CallFn(n, k)

SomeSave == \E k \in 0..MaxComps, raises \in BOOLEAN : Save(k, raises)

RouterSpecNext ==
    \/ Construct /\ UNCHANGED <<reqvars, cvars>>
    \/ SomeAddRoute /\ UNCHANGED <<reqvars, cvars>>
    \/ SomeCallFn /\ UNCHANGED <<reqvars, cvars>>

\* The CompoundExecutor: construction, add_route, calls of its functions.
RouterSpec == RouterSpecInit /\ [][RouterSpecNext]_vars

\* A caller of an executor that is saved and loaded calls add_route more
\* than once.
PersistAddRoute ==
    /\ nadd < MaxPersistAddRoute
    /\ \E fn \in RouteNames, cn \in CompNames, cfn \in CompFnNames, st \in BOOLEAN :
          AddRoute(fn, cn, cfn, st)

SomeReload == \E from_dump \in BOOLEAN : Reload(from_dump)

PersistSpecNext ==
    \/ Construct /\ UNCHANGED <<reqvars, cvars>>
    \/ PersistAddRoute /\ UNCHANGED <<reqvars, cvars>>
    \/ SomeSave /\ UNCHANGED <<reqvars, cvars>>
    \/ SomeReload /\ UNCHANGED <<reqvars, cvars>>

\* The CompoundExecutor: construction, add_route, save and reload.
PersistSpec == RouterSpecInit /\ [][PersistSpecNext]_vars

\* `components` is assigned again.
Reassign == \E list \in CompLists : ~components.none /\ AssignComponents(list)

ReassignSpecNext ==
    \/ Construct /\ UNCHANGED <<reqvars, cvars>>
    \/ Reassign /\ UNCHANGED <<reqvars, cvars>>
    \/ SomeCallFn /\ UNCHANGED <<reqvars, cvars>>

\* The CompoundExecutor: construction, reassignment of `components`, calls
\* of its functions.
ReassignSpec == RouterSpecInit /\ [][ReassignSpecNext]_vars

\* The executors come with any flags.
FlagSpecInit ==
    /\ RouterInit
    /\ routes = NoRoutes
    /\ ReqIdle
    /\ comp_is_trained \in [Comps -> BOOLEAN]
    /\ comp_is_updated \in [Comps -> BOOLEAN]

SomeSetTrained == \E v \in BOOLEAN : SetTrained(v)

SomeSetUpdated == \E v \in BOOLEAN : SetUpdated(v)

FlagSpecNext ==
    \/ Construct /\ UNCHANGED <<reqvars, cvars>>
    \/ SomeSetTrained /\ UNCHANGED reqvars
    \/ GetTrained /\ UNCHANGED reqvars
    \/ SomeSetUpdated /\ UNCHANGED reqvars
    \/ GetUpdated /\ UNCHANGED reqvars

\* The CompoundExecutor: construction, is_trained and is_updated.
FlagSpec == FlagSpecInit /\ [][FlagSpecNext]_vars

SomeGetItem == \E it \in LookupItems : GetItem(it)

SomeContains == \E it \in LookupItems : Contains(it)

SomeClose == \E k \in 0..MaxComps : Close(k)

LifeSpecNext ==
    \/ Construct /\ UNCHANGED <<reqvars, cvars>>
    \/ SomeGetItem /\ UNCHANGED reqvars
    \/ SomeContains /\ UNCHANGED reqvars
    \/ SomeClose /\ UNCHANGED reqvars

\* The CompoundExecutor: construction, lookup of components, close.
LifeSpec == RouterSpecInit /\ [][LifeSpecNext]_vars

(***************************************************************************)
(* Properties of the request generators.                                   *)
(***************************************************************************)
RECURSIVE Concat(_)
Concat(ss) == IF ss = <<>> THEN <<>> ELSE Head(ss) \o Concat(Tail(ss))

Last(s) == s[Len(s)]

\* The _build_doc calls that assign the local data_type.
Tracking(c) == c.ok /\ c.role # "groundtruth"

\* C1: the tracked type is the caller's data_type until a primary or single
\* build call returns, and from then on the type that call resolved; once a
\* call has resolved an item under AUTO, every later build call of the
\* stream, in this batch or a later one, is given the type resolved then
\* (DOCUMENT or CONTENT), and the tracked type is not AUTO any more.
C1_TypeCachedForStream ==
    /\ LET I == {i \in DOMAIN calls : Tracking(calls[i])}
       IN  data_type = IF I = {} THEN requested
                       ELSE calls[CHOOSE i \in I : \A j \in I : j <= i].type
    /\ \A i, j \in DOMAIN calls :
          (i < j /\ calls[i].ok /\ calls[i].given = AUTO)
          => /\ calls[j].given = calls[i].type
             /\ calls[j].given \in {DOCUMENT, CONTENT}
    /\ (\E i \in DOMAIN calls : Tracking(calls[i])) => data_type # AUTO

\* A later batch holds an item that parses as a document, built as content
\* because the first item of the stream fell back to content under AUTO.
C1_Witness ==
    /\ requested = AUTO
    /\ Len(out) = 2
    /\ calls[1].given = AUTO /\ calls[1].type = CONTENT
    /\ out[2].docs[1].data = "struct"
    /\ out[2].docs[1].how = "content"
    /\ data_type = CONTENT

\* C2: the build call of the groundtruth of a pair follows the successful
\* build of its input, is given the type that build resolved, never AUTO,
\* and when it returns it resolves to that same type.
C2_GroundtruthTypeOfPrimary ==
    \A j \in DOMAIN calls :
        calls[j].role = "groundtruth"
        => /\ j > 1
           /\ calls[j - 1].role = "primary"
           /\ calls[j - 1].ok
           /\ calls[j].given = calls[j - 1].type
           /\ calls[j].given # AUTO
           /\ calls[j].ok => calls[j].type = calls[j - 1].type

\* Under AUTO the input of a pair fell back to content and its groundtruth,
\* which parses as a document, was built as content too.
C2_Witness ==
    /\ requested = AUTO
    /\ Len(out) >= 1
    /\ Len(out[1].groundtruths) >= 1
    /\ out[1].docs[1].how = "content"
    /\ out[1].groundtruths[1].data = "struct"
    /\ out[1].groundtruths[1].how = "content"

\* The Requests of `out` that _generate made.
Batched == SelectSeq(out, LAMBDA r : ~r.flush)

\* C3: when every item has been built, a batch_size B > 0 has given
\* ceil(N/B) Requests of exactly B documents each, except that the last may
\* hold fewer (never none); batch_size 0 has given one Request of all N
\* documents; and the documents of the Requests, concatenated, are made from
\* the items of the stream in their order.
C3_BatchCountAndOrder ==
    pc = "done" =>
       LET N == Len(data)
           B == batch_size
           R == Batched
       IN  /\ B > 0 => /\ Len(R) = (N + B - 1) \div B
                       /\ \A k \in 1..Len(R) :
                             IF k < Len(R) THEN Len(R[k].docs) = B
                             ELSE Len(R[k].docs) \in 1..B
           /\ B = 0 => Len(R) = 1 /\ Len(R[1].docs) = N
           /\ LET D == Concat([k \in 1..Len(R) |-> R[k].docs])
              IN  /\ Len(D) = N
                  /\ \A i \in 1..N : D[i].data = data[i].a

\* Two items in batches of two give one full Request (wait for MaxLen = 3
\* for a short last one); here: two different items, batches of one.
C3_Witness ==
    /\ pc = "done"
    /\ entry = "index"
    /\ batch_size = 1
    /\ Len(data) = 2
    /\ data[1] # data[2]
    /\ Len(out) = 2

\* What _generate yields for the arguments of this call.
GenerateOut ==
    GenAll(GenState(requested, 0, 0, <<>>, <<>>, TRUE),
           data, batch_size, override_doc_id, queryset)

\* C4: index has yielded, when it ends, the Requests of _generate; train
\* has yielded, when it ends, those same Requests and then one more, which
\* has the flush marker and no documents; no other Request has the marker.
C4_TrainIsIndexThenFlush ==
    /\ (pc = "done" /\ entry = "index") => out = GenerateOut.out
    /\ (pc = "done" /\ entry = "train")
       => /\ Len(out) = Len(GenerateOut.out) + 1
          /\ SubSeq(out, 1, Len(out) - 1) = GenerateOut.out
          /\ Last(out).flush
          /\ Last(out).docs = <<>>
          /\ \A i \in 1..(Len(out) - 1) : ~out[i].flush
    /\ entry = "index" => \A i \in DOMAIN out : ~out[i].flush

C4_Witness ==
    /\ pc = "done"
    /\ entry = "train"
    /\ Len(out) = 3
    /\ Last(out).flush
    /\ Len(out[1].docs) = 1

\* The directive search() makes for the top_k of this call.
IsTopKQL(q) == q.name = "VectorSearchDriver"

\* C5: once search() with a number as top_k has been started,
\* kwargs['queryset'] is a list that ends with the directive for that top_k,
\* after the directives the caller gave, and every Request yielded has that
\* directive in its queryset; without top_k, or with None, no such directive
\* is anywhere.
C5_TopKDirectiveOnEveryRequest ==
    entry = "search" =>
       /\ (top_k.kind = "int" /\ pc # "start")
          => /\ queryset.kind = "list"
             /\ queryset.items # <<>>
             /\ Last(queryset.items) = TopKQL(top_k.val)
             /\ \A i \in 1..(Len(queryset.items) - 1) : queryset.items[i] = Q1
             /\ \A k \in DOMAIN out :
                   \E i \in DOMAIN out[k].queryset :
                       out[k].queryset[i] = TopKQL(top_k.val)
       /\ top_k.kind # "int"
          => /\ \A i \in DOMAIN queryset.items : ~IsTopKQL(queryset.items[i])
             /\ \A k \in DOMAIN out :
                   \A i \in DOMAIN out[k].queryset : ~IsTopKQL(out[k].queryset[i])

\* C16: every _build_doc call of the stream went by the data_type it was
\* given: under DOCUMENT or AUTO a datum that is or parses as a Document
\* came back with type DOCUMENT; a datum that does not parse raised
\* BadDocType under DOCUMENT and under AUTO came back as the content of a
\* new Document with type CONTENT; under CONTENT every datum came back as
\* content with type CONTENT and without an attempt to parse it; and no
\* call evaluated Document(data) more than once.
C16_BuildByRequestedType ==
    \A i \in DOMAIN calls :
        LET c == calls[i]
        IN  /\ (c.given \in {DOCUMENT, AUTO} /\ c.data \in {"doc", "struct"})
               => c.ok /\ c.type = DOCUMENT /\ c.how \in {"instance", "parsed"}
            /\ (c.given = DOCUMENT /\ c.data = "raw") => ~c.ok
            /\ (c.given = AUTO /\ c.data = "raw")
               => c.ok /\ c.type = CONTENT /\ c.how = "content"
            /\ c.given = CONTENT
               => c.ok /\ c.type = CONTENT /\ c.how = "content" /\ c.parses = 0
            /\ c.parses <= 1

\* One stream shows the fallback under AUTO and, after it, a datum that
\* parses wrapped as content without a parse.
C16_Witness ==
    /\ Len(calls) = 2
    /\ calls[1].given = AUTO /\ calls[1].data = "raw"
    /\ calls[1].type = CONTENT /\ calls[1].parses = 1
    /\ calls[2].given = CONTENT /\ calls[2].data = "struct"
    /\ calls[2].how = "content" /\ calls[2].parses = 0

\* The items of the k-th batch of the stream.
BatchOf(k) ==
    IF batch_size = 0 THEN data
    ELSE SubSeq(data, (k - 1) * batch_size + 1, Min(k * batch_size, Len(data)))

\* The number of items of the stream a build call has been made for.
ItemsBegun == Cardinality({i \in DOMAIN calls : calls[i].role # "groundtruth"})

\* C17: a build call that raises BadDocType ends the generator with that
\* error, for each of index, train, search and evaluate.  Then the raising
\* call is the last call made and the only one that raised, it was made for
\* the item that follows the items built before it, that item is of the
\* batch being built, the Requests yielded are those of the batches before
\* it and no more, and nothing is yielded afterwards.
C17_BadDocTypeHaltsTheStream ==
    /\ [](/\ (\E i \in DOMAIN calls : ~calls[i].ok) <=> pc = "BadDocType"
          /\ pc = "BadDocType"
             => /\ ~Last(calls).ok
                /\ \A i \in 1..(Len(calls) - 1) : calls[i].ok
                /\ ItemsBegun \in 1..Len(data)
                /\ Last(calls).data = IF Last(calls).role = "groundtruth"
                                        THEN data[ItemsBegun].b
                                        ELSE data[ItemsBegun].a
                /\ Len(out) = nbatch - 1
                /\ \A k \in DOMAIN out :
                      /\ ~out[k].flush
                      /\ Len(out[k].docs) = Len(BatchOf(k))
                      /\ \A i \in DOMAIN out[k].docs :
                            out[k].docs[i].data = BatchOf(k)[i].a
                /\ \E j \in DOMAIN BatchOf(nbatch) :
                      ItemsBegun = Len(Concat([k \in 1..(nbatch - 1) |-> BatchOf(k)])) + j)
    /\ [][pc = "BadDocType" => (pc' = pc /\ out' = out /\ calls' = calls)]_vars

\* train() was given two batches of one item; the second item does
\* not parse under DOCUMENT: one Request was yielded, and no flush Request.
C17_Witness ==
    /\ entry = "train"
    /\ pc = "BadDocType"
    /\ batch_size = 1
    /\ Len(data) = 2
    /\ Len(out) = 1
    /\ Len(calls) = 2

\* C18: a build call that returned a Document with type DOCUMENT, for a
\* datum that is a Document or parses as one, has called update_id() on it
\* exactly when override_doc_id is set; a call that wrapped the datum as
\* content has not called it.
C18_IdRegeneratedOnDocument ==
    \A i \in DOMAIN calls :
        LET c == calls[i]
        IN  /\ (c.ok /\ c.type = DOCUMENT) => (c.id_updated <=> override_doc_id)
            /\ (c.ok /\ c.type = CONTENT) => ~c.id_updated

\* C19: in every Request yielded, each groundtruth stands at the place of
\* the document of its own pair: for every i up to the number of
\* groundtruths, the i-th item of the batch is a pair, the i-th document is
\* made from its input and the i-th groundtruth from its groundtruth.
C19_GroundtruthsAligned ==
    \A k \in DOMAIN Batched :
        \A i \in DOMAIN Batched[k].groundtruths :
            /\ i <= Len(BatchOf(k))
            /\ BatchOf(k)[i].pair
            /\ Batched[k].docs[i].data = BatchOf(k)[i].a
            /\ Batched[k].groundtruths[i].data = BatchOf(k)[i].b

(***************************************************************************)
(* Properties of the CompoundExecutor.                                     *)
(***************************************************************************)
\* The places in the component list of the components that have method m.
Having(m) == {i \in DOMAIN components.list : m \in Methods(components.list[i])}

\* The names the stored routes bind.
StoredNames == {routes.items[i].fn : i \in DOMAIN routes.items}

\* C6: right after the executor is given its components, every exec method
\* that no stored route rebinds is bound by the number of components that
\* have it: none, neither m nor m_all is a function of the executor; one, m
\* is that component's m and there is no m_all; several, m is no function
\* of the executor and m_all is the wrapper of all of them when resolve_all
\* is set and no function either when it is not.  The assignment fails only
\* for a stored route that names no component function.
C6_RouteTableByProviders ==
    rlast.op = "components" =>
       /\ \A m \in ExecMethods \ StoredNames :
             LET n == Cardinality(Having(m))
             IN  /\ n = 0 => attrs[m] = NoFn /\ attrs[AllName(m)] = NoFn
                 /\ n = 1 => /\ \E i \in Having(m) :
                                   attrs[m] = Direct(components.list[i], m)
                             /\ attrs[AllName(m)] = NoFn
                 /\ n > 1 => /\ attrs[m] = NoFn
                             /\ IF resolve_all
                                THEN /\ attrs[AllName(m)].kind = "all"
                                     /\ Len(attrs[AllName(m)].fns) = n
                                ELSE attrs[AllName(m)] = NoFn
       /\ rlast.err # ""
          => \E i \in DOMAIN routes.items : \E j \in DOMAIN routes.items[i].to :
                \A c \in DOMAIN components.list :
                    ~ /\ Name(components.list[c]) = routes.items[i].to[j].comp
                      /\ routes.items[i].to[j].op \in Methods(components.list[c])

\* A (encode, add) and B (add, query) without resolve_all: encode and
\* query are aliases, add is left unresolved.
C6_Witness ==
    /\ rlast.op = "components"
    /\ rlast.err = ""
    /\ components.list = <<"A", "B">>
    /\ ~resolve_all
    /\ attrs["encode"] = Direct("A", "encode")
    /\ attrs["query"] = Direct("B", "query")
    /\ attrs["add"] = NoFn
    /\ attrs["add_all"] = NoFn

\* C7: a call of m_all that returns has called m of every component that
\* has m, once each, in the order of the component list, and returns the
\* list of their results in that order.
C7_AggregateCallsInOrder ==
    \A m \in ExecMethods :
        (rlast.op = AllName(m) /\ rlast.err = "")
        => /\ Len(rlast.called) = Cardinality(Having(m))
           /\ Len(rlast.result) = Len(rlast.called)
           /\ \A i \in DOMAIN rlast.called :
                 /\ rlast.called[i].op = m
                 /\ \E c \in Having(m) : rlast.called[i].comp = components.list[c]
                 /\ rlast.result[i] = Ret(rlast.called[i].comp, m)
           /\ \A i, j \in DOMAIN rlast.called :
                 i < j => \E c, d \in Having(m) :
                              /\ c < d
                              /\ rlast.called[i].comp = components.list[c]
                              /\ rlast.called[j].comp = components.list[d]

C7_Witness ==
    /\ components.list = <<"B", "A">>
    /\ rlast.op = "add_all"
    /\ rlast.err = ""
    /\ rlast.result = <<Ret("B", "add"), Ret("A", "add")>>

\* nadd counts the add_route calls: a step that adds one to it is an
\* add_route call, and no other step changes it.

\* No component of the list has the name cn and a method cfn.
NoSuchFn(cn, cfn) ==
    \A i \in DOMAIN components.list :
        ~(Name(components.list[i]) = cn /\ cfn \in Methods(components.list[i]))

RouterCallArgs == RouteNames \X CompNames \X CompFnNames \X BOOLEAN

\* C8: an add_route call that names no component, or no method of the
\* named component, raises, and an add_route call that raises leaves the
\* executor's functions, its stored routes and its own updated flag as they
\* were, with and without is_stored.
C8_FailedAddRouteChangesNothing ==
    [][ nadd' = nadd + 1
        => /\ \A a \in RouterCallArgs :
                 (NoSuchFn(a[2], a[3]) /\ AddRoute(a[1], a[2], a[3], a[4]))
                 => rlast'.err # ""
           /\ rlast'.err # ""
              => /\ attrs' = attrs
                 /\ routes' = routes
                 /\ is_updated' = is_updated
      ]_vars

\* An add_route has failed on an executor that has functions and a stored
\* route.
C8_Witness ==
    /\ rlast.op = "add_route"
    /\ rlast.err = "AttributeError"
    /\ components.list = <<"A", "B">>
    /\ attrs["say"] = Direct("B", "add")
    /\ routes.items # <<>>
    /\ ~is_updated

\* C9: an add_route(fn, cn, cfn, is_stored) that returns has made fn the
\* function cfn of the first component named cn that has it and has left
\* every other function as it was; with is_stored the stored routes then
\* map fn to {cn: cfn}, and other names as before, and the executor's own
\* updated flag is set; without, both are as they were.
C9_AddRouteBindsAndStores ==
    [][ \A a \in RouterCallArgs :
           (nadd' = nadd + 1 /\ rlast'.err = "" /\ AddRoute(a[1], a[2], a[3], a[4]))
           => /\ \E i \in DOMAIN components.list :
                    /\ Name(components.list[i]) = a[2]
                    /\ a[3] \in Methods(components.list[i])
                    /\ \A j \in 1..(i - 1) :
                          ~(Name(components.list[j]) = a[2]
                            /\ a[3] \in Methods(components.list[j]))
                    /\ attrs'[a[1]] = Direct(components.list[i], a[3])
              /\ \A n \in AttrNames \ {a[1]} : attrs'[n] = attrs[n]
              /\ a[4] => /\ is_updated'
                         /\ ~routes'.none
                         /\ \E i \in DOMAIN routes'.items :
                               routes'.items[i] = RouteItem(a[1], <<Target(a[2], a[3])>>)
                         /\ \A i, j \in DOMAIN routes'.items :
                               routes'.items[i].fn = routes'.items[j].fn => i = j
                         /\ \A i \in DOMAIN routes.items :
                               routes.items[i].fn # a[1]
                               => \E j \in DOMAIN routes'.items :
                                     routes'.items[j] = routes.items[i]
                         /\ Len(routes'.items) <= Len(routes.items) + 1
              /\ ~a[4] => routes' = routes /\ is_updated' = is_updated
      ]_vars

\* A stored add_route has replaced the route the executor was constructed
\* with for the same name.
C9_Witness ==
    /\ rlast.op = "add_route"
    /\ rlast.err = ""
    /\ is_updated
    /\ attrs["say"] = Direct("B", "query")
    /\ routes = Routes(<<RouteItem("say", <<Target("b", "query")>>)>>)

\* The last target of a stored route item, which is the one left bound, and
\* the binding it leaves when some component of the list matches it.
LastTarget(item) == item.to[Len(item.to)]

StoredBinding(item, list) ==
    LET t == LastTarget(item)
    IN  Direct(list[FirstMatch(list, t.comp, t.op)], t.op)

\* Every stored route whose target the list has is in effect in `after`.
StoredRoutesInEffect(after, rs, list) ==
    \A i \in DOMAIN rs.items :
        FirstMatch(list, LastTarget(rs.items[i]).comp, LastTarget(rs.items[i]).op) # 0
        => after[rs.items[i].fn] = StoredBinding(rs.items[i], list)

\* A save has succeeded on a router, an executor whose construction has
\* returned.
SavedRouter ==
    /\ rlast.op = "save"
    /\ rlast.err = ""
    /\ built = "ok"

\* A reload follows a save that has succeeded on a router.
SaveThenReload == SavedRouter /\ rlast'.op = "reload"

AllOfList(f) ==
    /\ ~components.none
    /\ components.list # <<>>
    /\ \A c \in Range(components.list) : f[c]

\* Some component of the list has the flag f.
SomeOfList(f) == \E c \in Range(components.list) : f[c]

\* C11: is_trained is true exactly when the executor has a list of at least
\* one component and every component of it is trained; the setter writes
\* the value to every component of the list and to nothing else; and on an
\* empty list is_trained is false also right after it was set to true.
C11_IsTrainedAllOfNonEmpty ==
    /\ [](rlast.op = "is_trained"
          => (rlast.result[1].truth <=> AllOfList(comp_is_trained)))
    /\ [][ /\ (rlast'.op = "is_trained.setter" /\ rlast'.err = "")
              => /\ \A c \in Comps :
                       comp_is_trained'[c] =
                          IF c \in Range(components.list)
                          THEN rlast'.result[1].truth ELSE comp_is_trained[c]
                 /\ UNCHANGED <<comp_is_updated, is_updated>>
           /\ (/\ rlast.op = "is_trained.setter" /\ rlast.err = ""
               /\ rlast.result[1].truth
               /\ components.list = <<>>
               /\ rlast'.op = "is_trained")
              => ~rlast'.result[1].truth
         ]_vars

\* is_trained was read on an empty component list, while every executor there
\* is has its flag set.
C11_Witness ==
    /\ rlast.op = "is_trained"
    /\ ~components.none
    /\ components.list = <<>>
    /\ ~rlast.result[1].truth
    /\ \A c \in Comps : comp_is_trained[c]

\* C15: is_updated is True when some component of the list is updated or
\* the executor's own flag is set, and False otherwise; the setter writes
\* the executor's own flag and no flag of any component; so is_updated read
\* right after it was set to False is true exactly when some component of
\* the list is updated.
C15_IsUpdatedAnyOrOwn ==
    /\ [](rlast.op = "is_updated"
          => rlast.result[1] = PyBool(SomeOfList(comp_is_updated) \/ is_updated))
    /\ [][ /\ rlast'.op = "is_updated.setter"
              => /\ is_updated' = rlast'.result[1].truth
                 /\ UNCHANGED <<comp_is_updated, comp_is_trained>>
           /\ (/\ rlast.op = "is_updated.setter"
               /\ ~rlast.result[1].truth
               /\ rlast'.op = "is_updated")
              => (rlast'.result[1].truth <=> SomeOfList(comp_is_updated))
         ]_vars

\* is_updated is true by the second component alone.
C15_Witness ==
    /\ rlast.op = "is_updated"
    /\ rlast.result[1].truth
    /\ ~is_updated
    /\ components.list = <<"A", "B">>
    /\ ~comp_is_updated["A"]
    /\ comp_is_updated["B"]

\* C12: a save() in which the save() of some component fails, by returning
\* False or by raising, does not return True and does not write the
\* executor's own descriptor.
C12_SaveFailsWhenAComponentFails ==
    [][ \A k \in 1..MaxComps, raises \in BOOLEAN :
           (rlast'.op = "save" /\ Save(k, raises))
           => /\ rlast'.err # "" \/ rlast'.result # <<TRUE>>
              /\ saved' = saved
      ]_vars

\* C13: a close() has called the close() of every component, in the order
\* of the list, and then the executor's own, whichever of them raised.
C13_CloseReachesEveryComponent ==
    rlast.op = "close"
    => /\ rlast.called = [i \in DOMAIN components.list |->
                             [comp |-> components.list[i], op |-> "close"]]
       /\ rlast.result = <<"BaseExecutor.close">>

\* C14: ce[name] returns the first component of the list with that name and
\* raises when no component has it; `name in ce` is True exactly when
\* ce[name] returns a component.
C14_LookupByName ==
    [][ \A n \in CompNames :
           /\ (rlast'.op = "__getitem__" /\ ~components.none /\ GetItem(StrItem(n)))
              => IF Named(components.list, n) = {}
                 THEN rlast'.err # ""
                 ELSE /\ rlast'.err = ""
                      /\ \E i \in Named(components.list, n) :
                            /\ rlast'.result = <<components.list[i]>>
                            /\ \A j \in Named(components.list, n) : i <= j
           /\ (rlast'.op = "__contains__" /\ ~components.none /\ Contains(StrItem(n)))
              => /\ rlast'.err = ""
                 /\ rlast'.result = <<"True">> <=> Named(components.list, n) # {}
      ]_vars

\* C20: after `components` is assigned again, the functions of the executor
\* are those a new executor with the same stored routes gets from the new
\* list.
C20_ReassignRebuildsFunctions ==
    [][ \A list \in CompLists :
           (rlast'.op = "components" /\ ~components.none /\ AssignComponents(list))
           => attrs' = SetComponents(Exec(NoAttrs, routes, is_updated, ""),
                                     list, resolve_all).attrs
      ]_vars

====
